---- MODULE Spec2Model ----
(***************************************************************************)
(* The Cafe Directory Service of main.py: seven FastAPI handlers over one  *)
(* SQLite table "cafes", each request holding its own SQLAlchemy session   *)
(* from get_db.                                                            *)
(*                                                                         *)
(* A request is served by a worker thread (FastAPI runs "def" handlers in  *)
(* a thread pool).  A worker goes                                          *)
(*     idle -> handler -> [queried] -> [refresh] -> done -> idle           *)
(* One step is one call on the store (one SQL statement or one commit);    *)
(* SQLite serializes these calls, the handlers do not lock across them.    *)
(*                                                                         *)
(* A row carries id, name, location and coffee_price.  The columns         *)
(* map_url, img_url, seats and the four booleans are written once by       *)
(* add_cafe and never read by a filter nor written again, exactly as       *)
(* location is by every handler but find_cafe: location stands for them.   *)
(***************************************************************************)
EXTENDS Integers, Sequences, FiniteSets, TLC

\* ------------------------------------------------------------- bounds
NumWorkers == 2      \* requests in flight at once
MaxId == 2           \* ids handed out: up to MaxId, or SeedRows + MaxId when seeded
MaxLocLen == 3       \* length of the loc strings given to /search
SeedRows == 9        \* rows of a cafes.db that exists before the service starts

\* ---------------------------------------------------------- constants
DefaultSkip == 0     \* read_cafes(skip: int = 0, ...)
DefaultLimit == 10   \* read_cafes(..., limit: int = 10, ...)
SecretKey == "TopSecretAPIKey"

NULL == "NULL"       \* SQL NULL in a nullable column

Workers == 1..NumWorkers

\* Strings are sequences of characters wherever the code looks inside them
\* (loc.strip); names, prices and keys are only compared, and stay atoms.
QuoteChars == {"'", "\""}
Chars == {"a", "A"} \cup QuoteChars

RECURSIVE StringsOfLen(_)
StringsOfLen(n) ==
  IF n = 0 THEN {<<>>}
  ELSE {Append(s, c) : s \in StringsOfLen(n - 1), c \in Chars}

StringsUpTo(n) == UNION {StringsOfLen(k) : k \in 0..n}

\* ------------------------------------------------------- the Cafe table
\* class Cafe: the columns of a row.
Cafe(id, name, location, coffee_price) ==
  [id |-> id, name |-> name, location |-> location, coffee_price |-> coffee_price]

\* class CafeBase: the fields a request body must carry (none has a default).
CafeBase == {"name", "location", "coffee_price"}

\* Pydantic validation of the body of POST /add against CafeCreate.
ValidCafeCreate(body) == CafeBase \subseteq DOMAIN body

Ids(cafes) == {cafes[i].id : i \in 1..Len(cafes)}
Names(cafes) == {cafes[i].name : i \in 1..Len(cafes)}
Rows(cafes) == {cafes[i] : i \in 1..Len(cafes)}

SetMax(S) == CHOOSE m \in S : \A x \in S : x <= m

\* id = Column(Integer, primary_key=True): an SQLite rowid alias without
\* AUTOINCREMENT; an INSERT without id takes the largest id in the table plus 1.
NextIdReuseCount(cafes) == Len(cafes) + 1

NextId(cafes) == IF cafes = <<>> THEN 1 ELSE SetMax(Ids(cafes)) + 1

\* name = Column(String(250), unique=True): the INSERT a commit flushes fails
\* with IntegrityError when the name is in the table.
UniqueViolation(cafes, name) == name \in Names(cafes)

Min(a, b) == IF a <= b THEN a ELSE b

\* str.strip(chars): drop the leading and the trailing characters in chars.
RECURSIVE LStrip(_, _)
LStrip(s, chars) ==
  IF s # <<>> /\ Head(s) \in chars THEN LStrip(Tail(s), chars) ELSE s

RECURSIVE RStrip(_, _)
RStrip(s, chars) ==
  IF s # <<>> /\ s[Len(s)] \in chars THEN RStrip(SubSeq(s, 1, Len(s) - 1), chars) ELSE s

StripLeadingOnly(s, chars) == LStrip(s, chars)

Strip(s, chars) == RStrip(LStrip(s, chars), chars)

\* "if not cafes", "if not cafe": an empty list and None are false.
NotCafesOffByOne(cafes) == Len(cafes) <= 1

NotCafes(cafes) == cafes = <<>>

\* ------------------------------------------------------ handler bodies
\* read_cafes: select(Cafe).offset(skip).limit(limit) on SQLite: rows in rowid
\* order; a negative OFFSET skips nothing and a negative LIMIT is no limit.
ReadCafesOneFewer(cafes, skip, limit) ==
  LET off == IF skip < 0 THEN 0 ELSE skip
      last == IF limit < 0 THEN Len(cafes) ELSE Min(Len(cafes), off + limit - 1)
  IN SubSeq(cafes, off + 1, last)

ReadCafesOneMore(cafes, skip, limit) ==
  LET off == IF skip < 0 THEN 0 ELSE skip
      last == IF limit < 0 THEN Len(cafes) ELSE Min(Len(cafes), off + limit + 1)
  IN SubSeq(cafes, off + 1, last)

ReadCafes(cafes, skip, limit) ==
  LET off == IF skip < 0 THEN 0 ELSE skip
      last == IF limit < 0 THEN Len(cafes) ELSE Min(Len(cafes), off + limit)
  IN SubSeq(cafes, off + 1, last)

\* all_cafe: line 80.
AllCafe(cafes) == cafes

\* find_cafe: the select of line 85 (select ... where: the rows that pass the
\* test, in rowid order).
FindCafe(cafes, loc) ==
  LET wanted == Strip(loc, QuoteChars)
      Test(c) == c.location = wanted
  IN SelectSeq(cafes, Test)

\* db.query(Cafe).filter(Cafe.id == cafe_id).first(): <<row>>, or <<>> for None.
First(cafes, cafe_id) ==
  LET Test(c) == c.id = cafe_id
      found == SelectSeq(cafes, Test)
  IN SubSeq(found, 1, Min(1, Len(found)))

\* The UPDATE that update_price's commit flushes.
SetPriceEveryRow(cafes, cafe_id, new_price) ==
  [i \in 1..Len(cafes) |-> [cafes[i] EXCEPT !.coffee_price = new_price]]

SetPrice(cafes, cafe_id, new_price) ==
  [i \in 1..Len(cafes) |->
     IF cafes[i].id = cafe_id
     THEN [cafes[i] EXCEPT !.coffee_price = new_price]
     ELSE cafes[i]]

\* The DELETE that delete_cafe's commit flushes.
DeleteRow(cafes, cafe_id) ==
  LET Test(c) == c.id # cafe_id
  IN SelectSeq(cafes, Test)

\* delete_cafe: the test of line 110.
AnyKey(api_key) == FALSE

BadKey(api_key) == api_key # SecretKey

\* SessionLocal(): a new Session object, distinct from every live one.
SharedSession(live) == 1

SessionLocal(live) == CHOOSE s \in 1..(Cardinality(live) + 1) : s \notin live

\* ------------------------------------------------------------- state
VARIABLES
  store,   \* the rows of table cafes, in rowid order
  pc,      \* pc[w]: where worker w is in its request
  args,    \* args[w]: the route and the parameters of w's request
  resp,    \* resp[w]: the response of w's request, once it has one
  db,      \* db[w]: the session get_db yielded to w's request ({} when none)
  open     \* the sessions opened and not closed

vars == <<store, pc, args, resp, db, open>>

NoArgs == [op |-> "none"]
NoResp == [status |-> 0, detail |-> "", body |-> <<>>]

\* Base.metadata.create_all on a missing cafes.db: an empty table.
Init ==
  /\ store = <<>>
  /\ pc = [w \in Workers |-> "idle"]
  /\ args = [w \in Workers |-> NoArgs]
  /\ resp = [w \in Workers |-> NoResp]
  /\ db = [w \in Workers |-> {}]
  /\ open = {}

\* The handler returns or raises: FastAPI turns either into a response, a
\* status with a message (detail) or with rows (body; one row for the routes
\* whose response_model is CafeResponse).
Respond(w, a, status, detail, body) ==
  /\ pc' = [pc EXCEPT ![w] = "done"]
  /\ args' = [args EXCEPT ![w] = a]
  /\ resp' = [resp EXCEPT ![w] = [status |-> status, detail |-> detail, body |-> body]]

\* The handler goes on to its next call on the store.
Goto(w, a, label) ==
  /\ pc' = [pc EXCEPT ![w] = label]
  /\ args' = [args EXCEPT ![w] = a]
  /\ UNCHANGED resp

\* get_db up to its yield: a request arrives and gets a session of its own.
get_db_open(w) ==
  /\ pc[w] = "idle"
  /\ LET s == SessionLocal(open \cup UNION {db[v] : v \in Workers})
     IN /\ db' = [db EXCEPT ![w] = {s}]
        /\ open' = open \cup {s}
  /\ pc' = [pc EXCEPT ![w] = "handler"]
  /\ UNCHANGED <<store, args, resp>>

\* get_db after its yield: "finally: db.close()", whatever the handler did.
get_db_close(w) ==
  /\ pc[w] = "done"
  /\ open' = open \ db[w]
  /\ db' = [db EXCEPT ![w] = {}]
  /\ pc' = [pc EXCEPT ![w] = "idle"]
  /\ args' = [args EXCEPT ![w] = NoArgs]
  /\ resp' = [resp EXCEPT ![w] = NoResp]
  /\ UNCHANGED store

\* GET /
read_cafes(w, skip, limit) ==
  /\ pc[w] = "handler"
  /\ Respond(w, [op |-> "read_cafes", skip |-> skip, limit |-> limit],
             200, "", ReadCafes(store, skip, limit))
  /\ UNCHANGED <<store, db, open>>

\* GET /random
random_cafe(w) ==
  /\ pc[w] = "handler"
  /\ LET cafes == AllCafe(store)
     IN IF NotCafes(cafes)
        THEN Respond(w, [op |-> "random_cafe"], 404, "No cafes available", <<>>)
        ELSE \E i \in 1..Len(cafes) :
               Respond(w, [op |-> "random_cafe"], 200, "", <<cafes[i]>>)
  /\ UNCHANGED <<store, db, open>>

\* GET /all
all_cafe(w) ==
  /\ pc[w] = "handler"
  /\ Respond(w, [op |-> "all_cafe"], 200, "", AllCafe(store))
  /\ UNCHANGED <<store, db, open>>

\* GET /search
find_cafe(w, loc) ==
  /\ pc[w] = "handler"
  /\ LET cafes == FindCafe(store, loc)
     IN IF NotCafes(cafes)
        THEN Respond(w, [op |-> "find_cafe", loc |-> loc], 404,
                     "Sorry, we don't have a cafe at the location", <<>>)
        ELSE Respond(w, [op |-> "find_cafe", loc |-> loc], 200, "", cafes)
  /\ UNCHANGED <<store, db, open>>

\* POST /add up to db.commit(): the body is validated against CafeCreate (422
\* when a field is missing), then the commit flushes one INSERT.  An
\* IntegrityError is caught nowhere: FastAPI answers 500 and the transaction
\* is rolled back when the session closes.  maxid caps the ids handed out.
add_cafe(w, body, maxid) ==
  /\ pc[w] = "handler"
  /\ LET a == [op |-> "add_cafe", body |-> body]
     IN IF ~ValidCafeCreate(body)
        THEN /\ Respond(w, a, 422, "Field required", <<>>)
             /\ UNCHANGED store
        ELSE IF UniqueViolation(store, body.name)
        THEN /\ Respond(w, a, 500, "Internal Server Error", <<>>)
             /\ UNCHANGED store
        ELSE /\ NextId(store) <= maxid
             /\ store' = Append(store, Cafe(NextId(store), body.name,
                                             body.location, body.coffee_price))
             /\ Goto(w, [op |-> "add_cafe", body |-> body,
                         cafe_id |-> NextId(store)], "refresh")
  /\ UNCHANGED <<db, open>>

\* db.refresh(new_cafe), db.refresh(cafe): the row is read again by its id;
\* a row that is gone raises InvalidRequestError (500).
refresh(w) ==
  /\ pc[w] = "refresh"
  /\ LET cafe == First(store, args[w].cafe_id)
     IN IF NotCafes(cafe)
        THEN Respond(w, args[w], 500, "Internal Server Error", <<>>)
        ELSE Respond(w, args[w], 200, "", cafe)
  /\ UNCHANGED <<store, db, open>>

\* PATCH /update-price/{cafe_id} up to the assignment of line 103.
update_price_query(w, cafe_id, new_price) ==
  /\ pc[w] = "handler"
  /\ LET cafe == First(store, cafe_id)
         a == [op |-> "update_price", cafe_id |-> cafe_id, new_price |-> new_price]
     IN IF NotCafes(cafe)
        THEN Respond(w, a, 404, "Cafe not found", <<>>)
        ELSE Goto(w, [op |-> "update_price", cafe_id |-> cafe_id,
                      new_price |-> new_price,
                      loaded |-> Head(cafe).coffee_price], "queried")
  /\ UNCHANGED <<store, db, open>>

\* update_price: db.commit().  The session flushes an UPDATE only when the
\* attribute differs from the value it loaded; an UPDATE that matches no row
\* raises StaleDataError (500).
update_price_commit(w) ==
  /\ pc[w] = "queried"
  /\ args[w].op = "update_price"
  /\ IF args[w].new_price = args[w].loaded
     THEN /\ Goto(w, args[w], "refresh")
          /\ UNCHANGED store
     ELSE IF NotCafes(First(store, args[w].cafe_id))
     THEN /\ Respond(w, args[w], 500, "Internal Server Error", <<>>)
          /\ UNCHANGED store
     ELSE /\ store' = SetPrice(store, args[w].cafe_id, args[w].new_price)
          /\ Goto(w, args[w], "refresh")
  /\ UNCHANGED <<db, open>>

\* DELETE /report-closed/{cafe_id} up to db.delete(cafe).
delete_cafe_query(w, cafe_id, api_key) ==
  /\ pc[w] = "handler"
  /\ LET a == [op |-> "delete_cafe", cafe_id |-> cafe_id, api_key |-> api_key]
     IN IF BadKey(api_key)
        THEN Respond(w, a, 403, "Forbidden: Invalid API Key", <<>>)
        ELSE IF NotCafes(First(store, cafe_id))
        THEN Respond(w, a, 404, "Cafe not found", <<>>)
        ELSE Goto(w, a, "queried")
  /\ UNCHANGED <<store, db, open>>

\* delete_cafe: db.commit() flushes DELETE ... WHERE id = cafe_id (a DELETE
\* that matches no row only warns), then the handler returns.
delete_cafe_commit(w) ==
  /\ pc[w] = "queried"
  /\ args[w].op = "delete_cafe"
  /\ store' = DeleteRow(store, args[w].cafe_id)
  /\ Respond(w, args[w], 200, "Successfully deleted the cafe from the database.", <<>>)
  /\ UNCHANGED <<db, open>>

\* ------------------------------------------------------------ requests
Prices == {"2.50", "3.00"}
Keys == {SecretKey, "letmein"}

\* Request bodies of POST /add: every field present, or coffee_price left out.
Bodies(names, locations, prices) ==
  [name : names, location : locations, coffee_price : prices]
    \cup [name : names, location : locations]

\* What a request in flight does next; the parameters of a request are drawn
\* when its handler first uses them.
Handle(w) ==
  \/ \E skip \in {DefaultSkip, 1} : read_cafes(w, skip, DefaultLimit)
  \/ random_cafe(w)
  \/ all_cafe(w)
  \/ \E loc \in {<<"a">>, <<"'", "A", "'">>} : find_cafe(w, loc)
  \/ \E body \in Bodies({"Alpha", "Beta"}, {<<"a">>}, {"2.50"}) : add_cafe(w, body, MaxId)
  \/ refresh(w)
  \/ \E cafe_id \in 1..MaxId, new_price \in Prices : update_price_query(w, cafe_id, new_price)
  \/ update_price_commit(w)
  \/ \E cafe_id \in 1..MaxId, api_key \in Keys : delete_cafe_query(w, cafe_id, api_key)
  \/ delete_cafe_commit(w)
  \/ get_db_close(w)

\* Requests arrive at any time and are served concurrently.
Next == \E w \in Workers : get_db_open(w) \/ Handle(w)

Spec == Init /\ [][Next]_vars

\* A worker thread runs its request to the end: every request in flight
\* keeps taking steps.
FairSpec == Spec /\ \A w \in Workers : WF_vars(Handle(w))

\* --------------------------------------------- one request at a time
\* A cafes.db left by an earlier run: SeedRows rows with ids 1..SeedRows.
SeedNames ==
  <<"Alpha", "Corner", "Dune", "Ember", "Fig", "Grind", "Harbor", "Ivy",
    "Juniper", "Kettle", "Loft", "Mocha">>

Seed ==
  [i \in 1..SeedRows |->
     Cafe(i, SeedNames[i], IF i % 2 = 1 THEN <<"a">> ELSE <<"A">>, "2.50")]

InitSerial ==
  /\ store \in {<<>>, Seed}
  /\ pc = [w \in Workers |-> "idle"]
  /\ args = [w \in Workers |-> NoArgs]
  /\ resp = [w \in Workers |-> NoResp]
  /\ db = [w \in Workers |-> {}]
  /\ open = {}

SerialMaxId == SeedRows + MaxId

\* The ids Update-price and Delete are asked for: the first row of either
\* store, the first row added to the seeded store, and an id no row has.
SerialIds == {1, SeedRows + 1, SerialMaxId + 1}

\* The steps of a request, its parameters drawn from the wide sets.
HandleSerial(w) ==
  \/ \E skip \in -1..(SerialMaxId + 1), limit \in -1..(SerialMaxId + 1) :
       read_cafes(w, skip, limit)
  \/ random_cafe(w)
  \/ all_cafe(w)
  \/ \E loc \in StringsUpTo(MaxLocLen) : find_cafe(w, loc)
  \/ \E body \in Bodies({"Beta", "Gamma"}, {<<"a">>, <<"A">>, <<"'", "a">>}, {"2.50"}) :
       add_cafe(w, body, SerialMaxId)
  \/ refresh(w)
  \/ \E cafe_id \in SerialIds, new_price \in Prices :
       update_price_query(w, cafe_id, new_price)
  \/ update_price_commit(w)
  \/ \E cafe_id \in SerialIds, api_key \in Keys :
       delete_cafe_query(w, cafe_id, api_key)
  \/ delete_cafe_commit(w)
  \/ get_db_close(w)

\* A request arrives only when no other is in flight: one worker serves them
\* all.
get_db_open_serial(w) ==
  /\ \A v \in Workers : pc[v] = "idle"
  /\ get_db_open(w)

NextSerial == \E w \in {1} : get_db_open_serial(w) \/ HandleSerial(w)

SpecSerial == InitSerial /\ [][NextSerial]_vars

\* ------------------------------------------------------------- claims
\* Worker w's request, of route op, takes the step that leaves label.
Leaves(w, op, label) ==
  /\ pc[w] = label
  /\ pc'[w] # label
  /\ args'[w].op = op

Finished(w, op, status) ==
  /\ pc[w] = "done"
  /\ args[w].op = op
  /\ resp[w].status = status

\* C1: a Create whose name is already in the store fails with Conflict (409)
\* and leaves the store as it was.
C1_DuplicateNameConflict ==
  [][\A w \in Workers :
       (/\ Leaves(w, "add_cafe", "handler")
        /\ ValidCafeCreate(args'[w].body)
        /\ args'[w].body.name \in Names(store))
       => (/\ pc'[w] = "done"
           /\ resp'[w].status = 409
           /\ store' = store)]_vars

\* C2: in every reachable state no two rows share an id and no two rows
\* share a name.
C2_UniqueIdAndName ==
  \A i, j \in 1..Len(store) :
    i # j => (store[i].id # store[j].id /\ store[i].name # store[j].name)

\* Two Creates of one name raced: one inserted the row, the other failed.
C2_Witness ==
  \E w, v \in Workers :
    /\ Finished(v, "add_cafe", 500)
    /\ args[w].op = "add_cafe"
    /\ pc[w] = "refresh"
    /\ args[w].body = args[v].body
    /\ Len(store) = 2

\* C3: Delete answers Forbidden (403) to a wrong api_key, else NotFound (404)
\* to an id no row has, the store unchanged in both; else it removes the row
\* of that id and no other, and List and All no longer show it.
C3_DeleteOutcomes ==
  [][\A w \in Workers :
       /\ Leaves(w, "delete_cafe", "handler") =>
            /\ store' = store
            /\ IF args'[w].api_key # SecretKey
               THEN pc'[w] = "done" /\ resp'[w].status = 403
               ELSE IF args'[w].cafe_id \notin Ids(store)
               THEN pc'[w] = "done" /\ resp'[w].status = 404
               ELSE pc'[w] = "queried"
       /\ Leaves(w, "delete_cafe", "queried") =>
            /\ pc'[w] = "done" /\ resp'[w].status = 200
            /\ Rows(store') = {c \in Rows(store) : c.id # args'[w].cafe_id}
            /\ Len(store') = Cardinality(Rows(store'))
            /\ \A i, j \in 1..Len(store') : i < j => store'[i].id < store'[j].id
            /\ args'[w].cafe_id \notin Ids(AllCafe(store'))
            /\ args'[w].cafe_id \notin Ids(ReadCafes(store', DefaultSkip, DefaultLimit))]_vars

\* A Delete with the right key has removed one of two rows.
C3_Witness ==
  \E w \in Workers :
    /\ Finished(w, "delete_cafe", 200)
    /\ Len(store) = 1
    /\ args[w].cafe_id = 1
    /\ store[1].id = 2

\* C8: Random answers NotFound (404) exactly when the store is empty as it
\* reads it, else one row of the store; it never changes the store.
C8_RandomOutcomes ==
  [][\A w \in Workers :
       Leaves(w, "random_cafe", "handler") =>
         /\ store' = store
         /\ pc'[w] = "done"
         /\ IF store = <<>>
            THEN resp'[w].status = 404
            ELSE /\ resp'[w].status = 200
                 /\ Len(resp'[w].body) = 1
                 /\ resp'[w].body[1] \in Rows(store)]_vars

\* Random has returned the second of two rows.
C8_Witness ==
  \E w \in Workers :
    /\ Finished(w, "random_cafe", 200)
    /\ Len(store) = 2
    /\ resp[w].body = <<store[2]>>

\* C9: a Create whose body has every required field and no coffee_price,
\* its name not in the store, stores a row whose coffee_price is null.
C9_CreateWithoutPrice ==
  [][\A w \in Workers :
       (/\ Leaves(w, "add_cafe", "handler")
        /\ DOMAIN args'[w].body = CafeBase \ {"coffee_price"}
        /\ args'[w].body.name \notin Names(store))
       => (/\ pc'[w] = "refresh"
           /\ store' = Append(store, Cafe(args'[w].cafe_id, args'[w].body.name,
                                           args'[w].body.location, NULL)))]_vars

\* C10: every request in flight holds one open session that no other request
\* holds, no session is open but those of the requests in flight, and every
\* request comes to its end, its session closed, whatever its response.
SessionsScoped ==
  /\ \A w \in Workers : Cardinality(db[w]) = (IF pc[w] = "idle" THEN 0 ELSE 1)
  /\ \A w, v \in Workers : w # v => db[w] \cap db[v] = {}
  /\ open = UNION {db[w] : w \in Workers}

C10_SessionPerRequest ==
  /\ []SessionsScoped
  /\ \A w \in Workers : (pc[w] # "idle") ~> (pc[w] = "idle" /\ db[w] \cap open = {})

\* Two requests in flight, each with its session, one of them failed on commit.
C10_Witness ==
  \E w, v \in Workers :
    /\ Finished(w, "add_cafe", 500)
    /\ pc[v] = "queried"
    /\ db[w] # db[v]
    /\ db[w] \cup db[v] = open

\* C4: Update-price answers NotFound (404) to an id no row has, the store
\* unchanged; on an existing id it sets that row's coffee_price to new_price
\* and changes no other field of it and no other row.
C4_UpdatePriceFrame ==
  [][\A w \in Workers :
       /\ Leaves(w, "update_price", "handler") =>
            /\ store' = store
            /\ IF args'[w].cafe_id \notin Ids(store)
               THEN pc'[w] = "done" /\ resp'[w].status = 404
               ELSE pc'[w] = "queried"
       /\ Leaves(w, "update_price", "queried") =>
            /\ pc'[w] = "refresh"
            /\ args'[w].cafe_id \in Ids(store)
            /\ Len(store') = Len(store)
            /\ \A i \in 1..Len(store) :
                 /\ store'[i].id = store[i].id
                 /\ store'[i].name = store[i].name
                 /\ store'[i].location = store[i].location
                 /\ store'[i].coffee_price =
                      (IF store[i].id = args'[w].cafe_id
                       THEN args'[w].new_price
                       ELSE store[i].coffee_price)]_vars

\* An Update-price has changed the price of one row among several.
C4_Witness ==
  \E w \in Workers :
    /\ Finished(w, "update_price", 200)
    /\ args[w].new_price = "3.00"
    /\ resp[w].body[1].coffee_price = "3.00"
    /\ \E i \in 1..Len(store) : store[i].coffee_price = "2.50"

\* C6: for skip >= 0 and limit >= 1, List returns without error the rows at
\* store positions skip+1 .. skip+limit that exist, in store order: at most
\* limit rows, none of the first skip rows, and no row when skip is at least
\* the number of rows.
Max(a, b) == IF a >= b THEN a ELSE b

C6_ListWindow ==
  [][\A w \in Workers :
       (/\ Leaves(w, "read_cafes", "handler")
        /\ args'[w].skip >= 0
        /\ args'[w].limit >= 1)
       => LET skip == args'[w].skip
              limit == args'[w].limit
              body == resp'[w].body
          IN /\ pc'[w] = "done" /\ resp'[w].status = 200
             /\ store' = store
             /\ Len(body) = Max(0, Min(limit, Len(store) - skip))
             /\ Len(body) <= limit
             /\ \A k \in 1..Len(body) : body[k] = store[skip + k]
             /\ \A k \in 1..Min(skip, Len(store)) : store[k] \notin Rows(body)
             /\ skip >= Len(store) => body = <<>>]_vars

\* A List has returned a window from the middle of the store.
C6_Witness ==
  \E w \in Workers :
    /\ Finished(w, "read_cafes", 200)
    /\ args[w].skip = 1
    /\ args[w].limit = 2
    /\ Len(store) > 3
    /\ resp[w].body = <<store[2], store[3]>>

\* C7: Search answers NotFound (404) exactly when no row's location equals
\* loc without its leading and trailing quote characters; else it returns
\* the rows whose location equals that string, all of them and no other.
Stripped(loc) ==
  LET keep == {k \in 1..Len(loc) : loc[k] \notin QuoteChars}
  IN IF keep = {} THEN <<>>
     ELSE SubSeq(loc, CHOOSE k \in keep : \A m \in keep : k <= m, SetMax(keep))

C7_SearchExact ==
  [][\A w \in Workers :
       Leaves(w, "find_cafe", "handler") =>
         LET hits == {c \in Rows(store) : c.location = Stripped(args'[w].loc)}
             body == resp'[w].body
         IN /\ pc'[w] = "done"
            /\ store' = store
            /\ resp'[w].status = (IF hits = {} THEN 404 ELSE 200)
            /\ Rows(body) = hits
            /\ Len(body) = Cardinality(hits)]_vars

\* A Search with quotes around loc has found some rows of the store, not all.
C7_Witness ==
  \E w \in Workers :
    /\ Finished(w, "find_cafe", 200)
    /\ args[w].loc = <<"'", "a", "\"">>
    /\ Len(resp[w].body) > 1
    /\ Len(resp[w].body) < Len(store)

\* C5 as stated: after a Create that succeeds the new row has an id no other
\* row holds, and an immediately following All, List (default skip and
\* limit) and Search on the new row's location each include the new row.
Created(w) == Finished(w, "add_cafe", 200)

FreshId(w) ==
  /\ Cardinality({i \in 1..Len(store) : store[i].id = args[w].cafe_id}) = 1
  /\ resp[w].body[1].id = args[w].cafe_id
  /\ resp[w].body[1].name = args[w].body.name

C5_CreateThenRead ==
  \A w \in Workers :
    Created(w) =>
      LET new == resp[w].body[1]
      IN /\ FreshId(w)
         /\ new \in Rows(AllCafe(store))
         /\ new \in Rows(ReadCafes(store, DefaultSkip, DefaultLimit))
         /\ new \in Rows(FindCafe(store, new.location))

\* C5 amended: List includes the new row when the store held fewer than
\* DefaultLimit rows before the Create, and only then; Search on the new
\* row's location includes it when that location neither begins nor ends
\* with a quote character, and only then.
QuoteFree(loc) ==
  loc = <<>> \/ (loc[1] \notin QuoteChars /\ loc[Len(loc)] \notin QuoteChars)

C5_CreateThenReadAmended ==
  /\ [](\A w \in Workers :
          Created(w) =>
            LET new == resp[w].body[1]
            IN /\ FreshId(w)
               /\ new \in Rows(AllCafe(store))
               /\ new \in Rows(ReadCafes(store, DefaultSkip, DefaultLimit))
                    <=> Len(store) - 1 < DefaultLimit
               /\ new \in Rows(FindCafe(store, new.location))
                    <=> QuoteFree(new.location))
  /\ [][\A w \in Workers :
          (Leaves(w, "add_cafe", "handler") /\ pc'[w] = "refresh") =>
            /\ args'[w].cafe_id \notin Ids(store)
            /\ store' = Append(store, Cafe(args'[w].cafe_id, args'[w].body.name,
                                            args'[w].body.location,
                                            args'[w].body.coffee_price))]_vars

\* A Create has succeeded on a store that held DefaultLimit rows, its location
\* free of quotes.
C5_Witness ==
  \E w \in Workers :
    /\ Created(w)
    /\ Len(store) = DefaultLimit + 1
    /\ resp[w].body[1] = store[Len(store)]
    /\ store[Len(store)].location = <<"A">>

====
